---- MODULE Spec2Model ----
(***************************************************************************)
(* A model of Metrica_Velocities.py: remove_player_velocities and          *)
(* calc_player_velocities (with its nested _savgol_safe).                  *)
(*                                                                         *)
(* Numbers.  A float is a pair <<n, d>>: d > 0 is the rational n/d in      *)
(* lowest terms, <<0,0>> is NaN, <<1,0>> is +inf and <<-1,0>> is -inf.     *)
(* Arithmetic is exact (rounding of IEEE doubles is not modelled).  A      *)
(* square root that is not rational is kept as the triple <<n, d, 2>>.     *)
(*                                                                         *)
(* Names.  A column name is a sequence of one-character strings, so that   *)
(* c[:4], c[:-2], c.endswith and c.split('_') are computed, not assumed.   *)
(*                                                                         *)
(* Tables.  A DataFrame is a sequence of columns [name, col]; col is a     *)
(* sequence of floats, one per row.  The index is 1..Len(col).             *)
(***************************************************************************)
EXTENDS Integers, Sequences, FiniteSets, TLC

VARIABLES
  pc,               \* where the call stands
  given,            \* the argument as it was when the call was made
  caller,           \* the DataFrame object the caller passed, as it is now
  team,             \* the local name team
  shared,           \* team is the caller's object, not a copy
  params,           \* smoothing, filter_, window, polyorder, maxspeed
  player_ids, pidx, \* the loop over the players
  dt, second_half_idx,
  vx, vy,           \* the current player's series
  raw,              \* its finite differences, as first computed
  fed,              \* its series as handed to the smoothing block
  sg,               \* the _savgol_safe calls of the current player
  computed,         \* per player, the series put back
  err,              \* the exception that ended the call, if any
  first,            \* the table the first call returned
  ncall             \* 1 in the first call, 2 in the second

vars == <<pc, given, caller, team, shared, params, player_ids, pidx, dt,
          second_half_idx, vx, vy, raw, fed, sg, computed, err, first, ncall>>

(***************************************************************************)
(* Floats                                                                  *)
(***************************************************************************)
NaN == <<0, 0>>
PInf == <<1, 0>>
NInf == <<-1, 0>>

Abs(n) == IF n < 0 THEN -n ELSE n

RECURSIVE Gcd(_, _)
Gcd(a, b) == IF b = 0 THEN a ELSE Gcd(b, a % b)

\* the rational n/d (d # 0) in lowest terms with a positive denominator
Rat(n, d) ==
  LET g == Gcd(Abs(n), Abs(d))
      s == IF d < 0 THEN -1 ELSE 1
  IN  <<(s * n) \div g, (s * d) \div g>>

Num(n) == <<n, 1>>

IsNaN(a) == a = NaN
IsInf(a) == a = PInf \/ a = NInf
IsFinite(a) == a[2] # 0
Sign(a) == IF a[1] > 0 THEN 1 ELSE IF a[1] < 0 THEN -1 ELSE 0

\* a + b
FAdd(a, b) ==
  IF IsNaN(a) \/ IsNaN(b) THEN NaN
  ELSE IF IsInf(a) /\ IsInf(b) THEN (IF a = b THEN a ELSE NaN)
  ELSE IF IsInf(a) THEN a
  ELSE IF IsInf(b) THEN b
  ELSE Rat(a[1] * b[2] + b[1] * a[2], a[2] * b[2])

FNeg(a) == <<-a[1], a[2]>>

\* a - b
FSub(a, b) == FAdd(a, FNeg(b))

\* a * b
FMul(a, b) ==
  IF IsNaN(a) \/ IsNaN(b) THEN NaN
  ELSE IF IsInf(a) \/ IsInf(b)
       THEN (IF Sign(a) * Sign(b) = 0 THEN NaN
             ELSE IF Sign(a) * Sign(b) > 0 THEN PInf ELSE NInf)
  ELSE Rat(a[1] * b[1], a[2] * b[2])

\* a / b, with IEEE's results for a zero or infinite divisor
FDiv(a, b) ==
  IF IsNaN(a) \/ IsNaN(b) THEN NaN
  ELSE IF IsInf(b) THEN (IF IsInf(a) THEN NaN ELSE Num(0))
  ELSE IF b[1] = 0
       THEN (IF Sign(a) = 0 THEN NaN ELSE IF Sign(a) > 0 THEN PInf ELSE NInf)
  ELSE IF IsInf(a) THEN (IF Sign(a) * Sign(b) > 0 THEN PInf ELSE NInf)
  ELSE Rat(a[1] * b[2], a[2] * b[1])

\* a > b as numpy compares: False when either side is NaN
FGt(a, b) ==
  IF IsNaN(a) \/ IsNaN(b) THEN FALSE
  ELSE IF a = b THEN FALSE
  ELSE IF a = PInf \/ b = NInf THEN TRUE
  ELSE IF a = NInf \/ b = PInf THEN FALSE
  ELSE a[1] * b[2] > b[1] * a[2]

\* the largest k with k*k <= n, by bisection on lo..hi
RECURSIVE ISqrtIn(_, _, _)
ISqrtIn(n, lo, hi) ==
  IF lo >= hi THEN lo
  ELSE LET mid == (lo + hi + 1) \div 2
       IN  IF mid * mid <= n THEN ISqrtIn(n, mid, hi) ELSE ISqrtIn(n, lo, mid - 1)

ISqrt(n) == ISqrtIn(n, 0, IF n < 46340 THEN n ELSE 46340)

\* np.sqrt of a non-negative float
FSqrt(a) ==
  IF ~IsFinite(a) THEN a
  ELSE LET rn == ISqrt(a[1])
           rd == ISqrt(a[2])
       IN  IF rn * rn = a[1] /\ rd * rd = a[2] THEN <<rn, rd>>
           ELSE <<a[1], a[2], 2>>

\* np.sqrt(vx**2 + vy**2)
Hypot(a, b) == FSqrt(FAdd(FMul(a, a), FMul(b, b)))

\* vx**2 + vy**2, the square of the speed
Speed2(a, b) == FAdd(FMul(a, a), FMul(b, b))

\* raw_speed > maxspeed, decided on the squares (both sides are >= 0)
SpeedGt(a, b, maxspeed) == FGt(Speed2(a, b), FMul(maxspeed, maxspeed))

(***************************************************************************)
(* Series (pandas.Series of floats over the index 1..n)                    *)
(***************************************************************************)
\* Series.diff(): the first row has no prior sample
Diff(s) == [i \in 1..Len(s) |-> IF i = 1 THEN NaN ELSE FSub(s[i], s[i - 1])]

\* a / b, row by row
SeriesDiv(a, b) == [i \in 1..Len(a) |-> FDiv(a[i], b[i])]

\* Series.replace([np.inf, -np.inf], np.nan)
ReplaceInf(s) == [i \in 1..Len(s) |-> IF IsInf(s[i]) THEN NaN ELSE s[i]]

Valid(s) == {i \in 1..Len(s) : ~IsNaN(s[i])}

SetMax(S) == CHOOSE x \in S : \A y \in S : y <= x
SetMin(S) == CHOOSE x \in S : \A y \in S : x <= y

\* Series.interpolate(limit_direction="both"): linear over the row positions
\* between the neighbouring valid samples, the nearest valid sample outside
\* them, and NaN when the series holds no valid sample
Interpolate(s) ==
  [i \in 1..Len(s) |->
     IF ~IsNaN(s[i]) THEN s[i]
     ELSE LET before == {j \in Valid(s) : j < i}
              after == {j \in Valid(s) : j > i}
          IN  IF before = {} /\ after = {} THEN NaN
              ELSE IF before = {} THEN s[SetMin(after)]
              ELSE IF after = {} THEN s[SetMax(before)]
              ELSE LET p == SetMax(before)
                       q == SetMin(after)
                   IN  FAdd(s[p], FMul(FSub(s[q], s[p]), Rat(i - p, q - p)))]

\* Series.ffill(): carry the last valid sample forward
Ffill(s) ==
  [i \in 1..Len(s) |->
     IF ~IsNaN(s[i]) THEN s[i]
     ELSE LET before == {j \in Valid(s) : j < i}
          IN  IF before = {} THEN NaN ELSE s[SetMax(before)]]

\* Series.bfill(): carry the next valid sample backward
Bfill(s) ==
  [i \in 1..Len(s) |->
     IF ~IsNaN(s[i]) THEN s[i]
     ELSE LET after == {j \in Valid(s) : j > i}
          IN  IF after = {} THEN NaN ELSE s[SetMin(after)]]

\* mask-selected rows, in index order: series.loc[mask]
RECURSIVE Take(_, _, _)
Take(s, mask, i) ==
  IF i > Len(s) THEN <<>>
  ELSE (IF mask[i] THEN <<s[i]>> ELSE <<>>) \o Take(s, mask, i + 1)

Loc(s, mask) == Take(s, mask, 1)

\* the number of rows the mask selects among rows 1..i
Rank(mask, i) == Cardinality({j \in 1..i : mask[j]})

\* series.loc[mask] = values (the lengths agree)
SetLoc(s, mask, values) ==
  [i \in 1..Len(s) |-> IF mask[i] THEN values[Rank(mask, i)] ELSE s[i]]

\* np.sqrt(vx**2 + vy**2), row by row
SpeedOf(a, b) == [i \in 1..Len(a) |-> Hypot(a[i], b[i])]

(***************************************************************************)
(* Smoothing                                                               *)
(***************************************************************************)
Max(a, b) == IF a >= b THEN a ELSE b
Min(a, b) == IF a <= b THEN a ELSE b

RECURSIVE SumOver(_, _, _)
\* f[lo] + ... + f[hi]
SumOver(f, lo, hi) == IF lo > hi THEN Num(0) ELSE FAdd(f[lo], SumOver(f, lo + 1, hi))

\* np.ones(int(window)) / float(window)
MaKernel(window) == [j \in 1..window |-> Rat(1, window)]

\* np.convolve(a, v, mode='same') for non-empty a and v: the longer operand
\* is convolved with the shorter, and the result has the longer one's length,
\* centred on the full convolution
ConvolveSame(a, v) ==
  LET long == IF Len(v) > Len(a) THEN v ELSE a
      short == IF Len(v) > Len(a) THEN a ELSE v
      n1 == Len(long)
      n2 == Len(short)
      off == (n2 - 1) - (n2 \div 2)
  IN  [i \in 1..n1 |->
         LET k == (i - 1) + off
             lo == Max(0, k - (n2 - 1))
             hi == Min(n1 - 1, k)
             terms == [j \in lo..hi |-> FMul(long[j + 1], short[k - j + 1])]
         IN  SumOver(terms, lo, hi)]

\* sum of the squared offsets -m..m
SumSq(m) == (m * (m + 1) * (2 * m + 1)) \div 3

\* the least-squares line through x[start+1..start+w], evaluated at offset
\* pos (0-based) of that window
LineFit(x, start, w, pos) ==
  LET m == w \div 2
      mean == FMul(SumOver([k \in 1..w |-> x[start + k]], 1, w), Rat(1, w))
      slope == FMul(SumOver([k \in 1..w |-> FMul(Num(k - 1 - m), x[start + k])], 1, w),
                    Rat(1, SumSq(m)))
  IN  FAdd(mean, FMul(slope, Num(pos - m)))

\* the mean of x[start+1..start+w]
MeanFit(x, start, w) == FMul(SumOver([k \in 1..w |-> x[start + k]], 1, w), Rat(1, w))

\* scipy.signal.savgol_filter(x, window_length=w, polyorder=p), mode='interp',
\* for w odd, 3 <= w <= len(x) and p < w.  Interior rows are the centred
\* least-squares fit; the first and last w \div 2 rows are read off the fit to
\* the first and last w rows.  Modelled for p = 0 (a constant), p = 1 (a line)
\* and p = w - 1 (the fit interpolates its w points: the series itself).
SavgolFilter(x, w, p) ==
  LET n == Len(x)
      m == w \div 2
      start(i) == IF i <= m THEN 0 ELSE IF i > n - m THEN n - w ELSE i - 1 - m
  IN  [i \in 1..n |->
         CASE p = w - 1 -> x[i]
           [] p = 0 -> MeanFit(x, start(i), w)
           [] p = 1 -> LineFit(x, start(i), w, i - 1 - start(i))]

\* what savgol_filter rejects with ValueError
SavgolFilterRaises(n, w, p) == w < 1 \/ w % 2 = 0 \/ p >= w \/ w > n

\* _savgol_safe: replace infs, then interpolate and fill
SgFill(series) == Ffill(Bfill(Interpolate(ReplaceInf(series))))

\* _savgol_safe: "window must be odd"
SgOdd(w) == IF w % 2 = 0 THEN w + 1 ELSE w

\* mutation: the window is clamped to n whatever n's parity
SgClamp_ToLength(w, n) == IF w > n THEN n ELSE w

\* _savgol_safe: "window must be <= n"
SgClamp(w, n) == IF w > n THEN (IF n % 2 = 1 THEN n ELSE n - 1) ELSE w

\* _savgol_safe: "polyorder must be < window"
SgPoly(poly, w) == IF poly >= w THEN Max(1, w - 1) ELSE poly

\* _savgol_safe from "polyorder must be < window" on: the filter is applied
SgApply(s, w, p) ==
  [filtered |-> TRUE, w |-> w, p |-> p, raised |-> SavgolFilterRaises(Len(s), w, p),
   values |-> IF SavgolFilterRaises(Len(s), w, p) THEN s ELSE SavgolFilter(s, w, p)]

\* _savgol_safe's second "if w < 3", on the window made odd and clamped
SgChecked(s, w, poly) ==
  IF w < 3
  THEN [filtered |-> FALSE, w |-> w, p |-> poly, raised |-> FALSE, values |-> s]
  ELSE SgApply(s, w, SgPoly(poly, w))

\* _savgol_safe from n = len(s) on, s being the filled series
SgAdjusted(s, win, poly) ==
  IF win < 3
  THEN [filtered |-> FALSE, w |-> win, p |-> poly, raised |-> FALSE, values |-> s]
  ELSE SgChecked(s, SgClamp(SgOdd(win), Len(s)), poly)

\* _savgol_safe(series, win, poly): [filtered, w, p, raised, values]
_savgol_safe(series, win, poly) == SgAdjusted(SgFill(series), win, poly)

(***************************************************************************)
(* Column names (Python str)                                               *)
(***************************************************************************)
US == <<"_">>
Home == <<"H", "o", "m", "e">>
Away == <<"A", "w", "a", "y">>
Ball == <<"b", "a", "l", "l">>
TimeCol == <<"T", "i", "m", "e", " ", "[", "s", "]">>
PeriodCol == <<"P", "e", "r", "i", "o", "d">>
X == <<"x">>
Y == <<"y">>
VX == <<"v", "x">>
VY == <<"v", "y">>
AX == <<"a", "x">>
AY == <<"a", "y">>
SPEED == <<"s", "p", "e", "e", "d">>
ACCELERATION == <<"a", "c", "c", "e", "l", "e", "r", "a", "t", "i", "o", "n">>

\* the characters of the names above, in code-point order
CodePoints ==
  <<" ", "1", "2", "A", "H", "P", "T", "[", "]", "_", "a", "b", "c", "d", "e",
    "i", "l", "m", "n", "o", "p", "r", "s", "t", "v", "w", "x", "y">>

Ord(ch) == CHOOSE k \in 1..Len(CodePoints) : CodePoints[k] = ch

\* a < b for str
RECURSIVE StrLess(_, _)
StrLess(a, b) ==
  IF b = <<>> THEN FALSE
  ELSE IF a = <<>> THEN TRUE
  ELSE IF Head(a) = Head(b) THEN StrLess(Tail(a), Tail(b))
  ELSE Ord(Head(a)) < Ord(Head(b))

\* c.split('_'), the token in progress carried in cur
RECURSIVE SplitFrom(_, _)
SplitFrom(c, cur) ==
  IF c = <<>> THEN <<cur>>
  ELSE IF Head(c) = "_" THEN <<cur>> \o SplitFrom(Tail(c), <<>>)
  ELSE SplitFrom(Tail(c), Append(cur, Head(c)))

Split(c) == SplitFrom(c, <<>>)

\* c.split('_')[-1]
LastToken(c) == Split(c)[Len(Split(c))]

\* c[:k]
Prefix(c, k) == SubSeq(c, 1, Min(k, Len(c)))

\* c[:-2]
DropLast2(c) == SubSeq(c, 1, Len(c) - 2)

\* c.endswith(suffix)
EndsWith(c, suffix) ==
  Len(c) >= Len(suffix) /\ SubSeq(c, Len(c) - Len(suffix) + 1, Len(c)) = suffix

(***************************************************************************)
(* Tables (pandas.DataFrame)                                               *)
(***************************************************************************)
Columns(t) == [i \in 1..Len(t) |-> t[i].name]

HasColumn(t, name) == \E i \in 1..Len(t) : t[i].name = name

\* team[name]
Column(t, name) == t[CHOOSE i \in 1..Len(t) : t[i].name = name].col

\* team[name] = values: overwrite the column in place, or append a new one
SetColumn(t, name, values) ==
  IF HasColumn(t, name)
  THEN [i \in 1..Len(t) |-> IF t[i].name = name THEN [name |-> name, col |-> values]
                                                ELSE t[i]]
  ELSE Append(t, [name |-> name, col |-> values])

\* team.drop(columns=cols): a new table without them
Drop(t, cols) == SelectSeq(t, LAMBDA c : c.name \notin cols)

NRows(t) == IF Len(t) = 0 THEN 0 ELSE Len(t[1].col)

\* mutation: 'acceleration' left out of the list
DerivedSuffixes_NoAcceleration == {VX, VY, AX, AY, SPEED}

\* the list literal of remove_player_velocities
DerivedSuffixes == {VX, VY, AX, AY, SPEED, ACCELERATION}

\* remove_player_velocities: the columns to drop
DerivedColumns(t) == {t[i].name : i \in {j \in 1..Len(t) : LastToken(t[j].name) \in DerivedSuffixes}}

\* mutation: the result of the drop is thrown away
remove_player_velocities_Discarded(t) == t

\* remove_player_velocities(team): the table returned
remove_player_velocities(t) ==
  IF Cardinality(DerivedColumns(t)) > 0 THEN Drop(t, DerivedColumns(t)) ELSE t

\* whether the table returned is the very object passed in (no drop was made)
ReturnsSameObject(t) == ~(Cardinality(DerivedColumns(t)) > 0)

\* the ascending sequence of the elements of a set of names (np.unique)
RECURSIVE Sorted(_)
Sorted(S) ==
  IF S = {} THEN <<>>
  ELSE LET least == CHOOSE a \in S : \A b \in S \ {a} : StrLess(a, b)
       IN  <<least>> \o Sorted(S \ {least})

\* the player ids: c[:-2] of every Home/Away column ending in _x or _y
PlayerIds(t) ==
  Sorted({DropLast2(t[i].name) :
            i \in {j \in 1..Len(t) :
                     /\ Prefix(t[j].name, 4) \in {Home, Away}
                     /\ (EndsWith(t[j].name, US \o X) \/ EndsWith(t[j].name, US \o Y))}})

\* the first index label with Period == 2, or 0 for None
SecondHalfIdx(t) ==
  IF HasColumn(t, PeriodCol)
  THEN LET idx2 == {i \in 1..NRows(t) : Column(t, PeriodCol)[i] = Num(2)}
       IN  IF Cardinality(idx2) > 0 THEN SetMin(idx2) ELSE 0
  ELSE 0

(***************************************************************************)
(* calc_player_velocities, step by step                                    *)
(***************************************************************************)
SavitzkyGolay == "Savitzky-Golay"
MovingAverage == "moving average"

\* team[player + "_x"].diff() / dt
RawVelocity(pos, timestep) == SeriesDiv(Diff(pos), timestep)

\* "if maxspeed and maxspeed > 0"
OutliersEnabled(maxspeed) == maxspeed # Num(0) /\ FGt(maxspeed, Num(0))

\* mutation: only vx is invalidated
RejectOutliers_VxOnly(a, b, maxspeed) ==
  IF OutliersEnabled(maxspeed)
  THEN <<[i \in 1..Len(a) |-> IF SpeedGt(a[i], b[i], maxspeed) THEN NaN ELSE a[i]], b>>
  ELSE <<a, b>>

\* vx[raw_speed > maxspeed] = np.nan; vy[raw_speed > maxspeed] = np.nan
RejectOutliers(a, b, maxspeed) ==
  IF OutliersEnabled(maxspeed)
  THEN LET out == [i \in 1..Len(a) |-> SpeedGt(a[i], b[i], maxspeed)]
       IN  <<[i \in 1..Len(a) |-> IF out[i] THEN NaN ELSE a[i]],
             [i \in 1..Len(b) |-> IF out[i] THEN NaN ELSE b[i]]>>
  ELSE <<a, b>>

\* mutation: interpolate() without limit_direction="both" fills forward only
CleanGaps_ForwardOnly(v) ==
  [i \in 1..Len(v) |->
     IF Valid(ReplaceInf(v)) = {} \/ i < SetMin(Valid(ReplaceInf(v))) THEN NaN
     ELSE Interpolate(ReplaceInf(v))[i]]

\* v.replace([np.inf, -np.inf], np.nan).interpolate(limit_direction="both")
CleanGaps(v) == Interpolate(ReplaceInf(v))

\* vx.index <= second_half_idx and vx.index >= second_half_idx
Mask1(n, b) == [i \in 1..n |-> i <= b]
Mask2(n, b) == [i \in 1..n |-> i >= b]

\* what one call of _savgol_safe on n rows did, for the record
SgCall(n, win, poly, r) ==
  [n |-> n, win |-> win, poly |-> poly, filtered |-> r.filtered, w |-> r.w,
   p |-> r.p, raised |-> r.raised]

\* v.loc[mask] = r.values, r being what _savgol_safe returned for v.loc[mask]
SgWritten(v, mask, window, polyorder, r) ==
  [raised |-> r.raised, v |-> SetLoc(v, mask, r.values),
   calls |-> <<SgCall(Len(r.values), window, polyorder, r)>>]

\* v.loc[mask] = _savgol_safe(v.loc[mask], window, polyorder)
SgSegment(v, mask, window, polyorder) ==
  SgWritten(v, mask, window, polyorder, _savgol_safe(Loc(v, mask), window, polyorder))

\* the second segment's pass, after the first: [raised, v, calls]
SgAfter(one, two) ==
  [raised |-> one.raised \/ two.raised, v |-> two.v, calls |-> one.calls \o two.calls]

\* the second segment is read from the series the first pass wrote back
SgSecond(one, mask, window, polyorder) ==
  SgAfter(one, SgSegment(one.v, mask, window, polyorder))

\* one component through the Savitzky-Golay branch: [raised, v, calls]
SgSeries(v, window, polyorder, half) ==
  IF half = 0
  THEN SgSegment(v, [i \in 1..Len(v) |-> TRUE], window, polyorder)
  ELSE SgSecond(SgSegment(v, Mask1(Len(v), half), window, polyorder),
                Mask2(Len(v), half), window, polyorder)

\* both components' results as one: [raised, vx, vy, calls]
Both(ra, rb) ==
  [raised |-> ra.raised \/ rb.raised, vx |-> ra.v, vy |-> rb.v,
   calls |-> ra.calls \o rb.calls]

\* the Savitzky-Golay branch
SmoothSavgol(a, b, window, polyorder, half) ==
  Both(SgSeries(a, window, polyorder, half), SgSeries(b, window, polyorder, half))

\* np.convolve(segment.ffill().bfill().values, ma_window, mode='same')
MaConvolve(segment, window) == ConvolveSame(Bfill(Ffill(segment)), MaKernel(window))

\* v.loc[mask1] = c1; v.loc[mask2] = c2.  Assigning an array whose length is
\* not the number of rows selected raises ValueError.
MaWritten(v, mask1, mask2, c1, c2) ==
  IF Len(c1) # Rank(mask1, Len(v)) \/ Len(c2) # Rank(mask2, Len(v))
  THEN [raised |-> TRUE, v |-> v, calls |-> <<>>]
  ELSE [raised |-> FALSE, v |-> SetLoc(SetLoc(v, mask1, c1), mask2, c2), calls |-> <<>>]

\* one component through the moving-average branch: [raised, v, calls]; both
\* segments are convolved from the series as it was before either is written
MaSeries(v, window, half) ==
  IF window = 0 \/ Len(v) = 0
  THEN [raised |-> TRUE, v |-> v, calls |-> <<>>]
  ELSE IF half = 0
  THEN MaWritten(v, [i \in 1..Len(v) |-> TRUE], [i \in 1..Len(v) |-> FALSE],
                 MaConvolve(v, window), <<>>)
  ELSE MaWritten(v, Mask1(Len(v), half), Mask2(Len(v), half),
                 MaConvolve(Loc(v, Mask1(Len(v), half)), window),
                 MaConvolve(Loc(v, Mask2(Len(v), half)), window))

\* the moving-average branch
SmoothMovingAverage(a, b, window, half) ==
  Both(MaSeries(a, window, half), MaSeries(b, window, half))

\* the smoothing block: [raised, vx, vy, calls]
Smoothed(a, b, par, half) ==
  IF par.smoothing /\ par.filter_ = SavitzkyGolay
  THEN SmoothSavgol(a, b, par.window, par.polyorder, half)
  ELSE IF par.smoothing /\ par.filter_ = MovingAverage
  THEN SmoothMovingAverage(a, b, par.window, half)
  ELSE [raised |-> FALSE, vx |-> a, vy |-> b, calls |-> <<>>]

\* mutation: vx is written to player + "_x" instead of player + "_vx"
PutBack_OverPosition(t, player, a, b) ==
  SetColumn(SetColumn(SetColumn(t, player \o US \o X, a),
                      player \o US \o VY, b),
            player \o US \o SPEED, SpeedOf(a, b))

\* "put results back in the dataframe"
PutBack(t, player, a, b) ==
  SetColumn(SetColumn(SetColumn(t, player \o US \o VX, a),
                      player \o US \o VY, b),
            player \o US \o SPEED, SpeedOf(a, b))

(***************************************************************************)
(* The call as a state machine                                             *)
(***************************************************************************)
NoSeries == <<>>

\* line 30: team = remove_player_velocities(team)
Sanitize ==
  /\ pc = "call"
  /\ team' = remove_player_velocities(caller)
  /\ shared' = ReturnsSameObject(caller)
  /\ pc' = "enumerate"
  /\ UNCHANGED <<given, caller, params, player_ids, pidx, dt, second_half_idx,
                 vx, vy, raw, fed, sg, computed, err, first, ncall>>

\* lines 32-46: the player ids, the timestep and the second half's first row
Enumerate ==
  /\ pc = "enumerate"
  /\ player_ids' = PlayerIds(team)
  /\ dt' = Diff(Column(team, TimeCol))
  /\ second_half_idx' = SecondHalfIdx(team)
  /\ pidx' = 1
  /\ pc' = "loop"
  /\ UNCHANGED <<given, caller, team, shared, params, vx, vy, raw, fed, sg,
                 computed, err, first, ncall>>

\* lines 84-85: team[player + "_x"] of a missing column raises KeyError
Differentiate ==
  /\ pc = "loop"
  /\ pidx <= Len(player_ids)
  /\ LET player == player_ids[pidx]
     IN  IF HasColumn(team, player \o US \o X) /\ HasColumn(team, player \o US \o Y)
         THEN /\ vx' = RawVelocity(Column(team, player \o US \o X), dt)
              /\ vy' = RawVelocity(Column(team, player \o US \o Y), dt)
              /\ raw' = <<vx', vy'>>
              /\ pc' = "reject"
              /\ err' = err
         ELSE /\ pc' = "failed"
              /\ err' = "KeyError"
              /\ UNCHANGED <<vx, vy, raw>>
  /\ UNCHANGED <<given, caller, team, shared, params, player_ids, pidx, dt,
                 second_half_idx, fed, sg, computed, first, ncall>>

\* lines 88-91: remove outliers
Reject ==
  /\ pc = "reject"
  /\ vx' = RejectOutliers(vx, vy, params.maxspeed)[1]
  /\ vy' = RejectOutliers(vx, vy, params.maxspeed)[2]
  /\ pc' = "clean"
  /\ UNCHANGED <<given, caller, team, shared, params, player_ids, pidx, dt,
                 second_half_idx, raw, fed, sg, computed, err, first, ncall>>

\* lines 94-95: clean inf/NaN before smoothing
Clean ==
  /\ pc = "clean"
  /\ vx' = CleanGaps(vx)
  /\ vy' = CleanGaps(vy)
  /\ fed' = <<vx', vy'>>
  /\ pc' = "smooth"
  /\ UNCHANGED <<given, caller, team, shared, params, player_ids, pidx, dt,
                 second_half_idx, raw, sg, computed, err, first, ncall>>

\* lines 98-133: smoothing
Smooth ==
  /\ pc = "smooth"
  /\ LET r == Smoothed(vx, vy, params, second_half_idx)
     IN  /\ sg' = r.calls
         /\ IF r.raised
            THEN /\ pc' = "failed"
                 /\ err' = "ValueError"
                 /\ UNCHANGED <<vx, vy>>
            ELSE /\ vx' = r.vx
                 /\ vy' = r.vy
                 /\ pc' = "put"
                 /\ err' = err
  /\ UNCHANGED <<given, caller, team, shared, params, player_ids, pidx, dt,
                 second_half_idx, raw, fed, computed, first, ncall>>

\* lines 136-138: the three assignments write into the object team names,
\* which is the caller's own when nothing was dropped
PutResults ==
  /\ pc = "put"
  /\ team' = PutBack(team, player_ids[pidx], vx, vy)
  /\ caller' = IF shared THEN team' ELSE caller
  /\ computed' = Append(computed, <<vx, vy>>)
  /\ pidx' = pidx + 1
  /\ pc' = "loop"
  /\ UNCHANGED <<given, shared, params, player_ids, dt, second_half_idx, vx, vy,
                 raw, fed, sg, err, first, ncall>>

\* line 140: return team
Return ==
  /\ pc = "loop"
  /\ pidx > Len(player_ids)
  /\ pc' = "done"
  /\ UNCHANGED <<given, caller, team, shared, params, player_ids, pidx, dt,
                 second_half_idx, vx, vy, raw, fed, sg, computed, err, first, ncall>>

\* the caller calls again with the same parameters, on the table returned
\* (onOutput) or on the table it passed before
CallAgain(onOutput) ==
  /\ pc = "done"
  /\ ncall = 1
  /\ first' = team
  /\ caller' = IF onOutput THEN team ELSE caller
  /\ given' = caller'
  /\ ncall' = 2
  /\ pc' = "call"
  /\ team' = <<>>
  /\ shared' = FALSE
  /\ player_ids' = <<>>
  /\ pidx' = 0
  /\ dt' = NoSeries
  /\ second_half_idx' = 0
  /\ vx' = NoSeries
  /\ vy' = NoSeries
  /\ raw' = <<>>
  /\ fed' = <<>>
  /\ sg' = <<>>
  /\ computed' = <<>>
  /\ UNCHANGED <<params, err>>

\* the state at the call of calc_player_velocities(table, **par)
Called(table, par) ==
  /\ pc = "call"
  /\ given = table
  /\ caller = table
  /\ team = <<>>
  /\ shared = FALSE
  /\ params = par
  /\ player_ids = <<>>
  /\ pidx = 0
  /\ dt = NoSeries
  /\ second_half_idx = 0
  /\ vx = NoSeries
  /\ vy = NoSeries
  /\ raw = <<>>
  /\ fed = <<>>
  /\ sg = <<>>
  /\ computed = <<>>
  /\ err = "none"
  /\ first = <<>>
  /\ ncall = 1

(***************************************************************************)
(* The tables and parameters the calls are made on                         *)
(***************************************************************************)
MaxRows == 5
MaxWin == 7
DefaultWindow == 7
DefaultPolyorder == 1
DefaultMaxSpeed == 12
FramesPerSecond == 25

Col(name, values) == [name |-> name, col |-> values]

\* "Time [s]" at the normal timestep of 0.04 s; from row dup on (dup > 0) the
\* clock is one frame late, so that row repeats the stamp before it
TimeSeries(n, dup) ==
  [i \in 1..n |-> Rat(IF dup > 0 /\ i >= dup THEN i - 2 ELSE i - 1, FramesPerSecond)]

\* "Period": 2 from row b on (b > 0), 1 before
PeriodSeries(n, b) == [i \in 1..n |-> IF b > 0 /\ i >= b THEN Num(2) ELSE Num(1)]

RECURSIVE Travelled(_, _)
\* the distance covered up to row i at d[k] metres per second in frame k
Travelled(d, i) == IF i <= 1 THEN 0 ELSE d[i] + Travelled(d, i - 1)

\* the positions of a player moving at d[i] m/s in frame i
Path(d) == [i \in 1..Len(d) |-> Rat(Travelled(d, i), FramesPerSecond)]

Steady(n, v) == [i \in 1..n |-> v]
SpikeAt(n, v, j, h) == [i \in 1..n |-> IF i = j THEN h ELSE v]
WithGap(pos, j) == [i \in 1..Len(pos) |-> IF i = j THEN NaN ELSE pos[i]]

Player1 == Home \o US \o <<"1">>
Player2 == Away \o US \o <<"2">>

\* polyorders whose fit SavgolFilter models: 0, 1 and any p >= the window,
\* which _savgol_safe lowers to window - 1
PolyOrders == {0, DefaultPolyorder, MaxRows + MaxWin}

Unsmoothed(m) ==
  [smoothing |-> FALSE, filter_ |-> SavitzkyGolay, window |-> DefaultWindow,
   polyorder |-> DefaultPolyorder, maxspeed |-> m]

SignalParams ==
  LET speeds == {Num(0), Num(DefaultMaxSpeed)}
  IN  {Unsmoothed(m) : m \in speeds}
      \cup {[smoothing |-> TRUE, filter_ |-> SavitzkyGolay, window |-> w,
             polyorder |-> p, maxspeed |-> m] :
              w \in 1..MaxWin, p \in PolyOrders, m \in speeds}
      \cup {[smoothing |-> TRUE, filter_ |-> MovingAverage, window |-> w,
             polyorder |-> DefaultPolyorder, maxspeed |-> m] :
              w \in 1..MaxWin, m \in speeds}

\* x traces of one player over n rows: steady runs, a one-frame glitch on a
\* steady run, and a missing sample
XTraces(n) ==
  {Path(Steady(n, v)) : v \in {0, 5, 25}}
  \cup {Path(SpikeAt(n, 5, j, 50)) : j \in 2..n}
  \cup {WithGap(Path(Steady(n, 5)), j) : j \in 1..n}

YTraces(n) == {Path(Steady(n, 0)), Path(SpikeAt(n, 0, 3, 50))}

\* a table of one player, with or without a Period column
SignalTable(n, xs, ys, period, b, dup) ==
  <<Col(TimeCol, TimeSeries(n, dup))>>
  \o (IF period THEN <<Col(PeriodCol, PeriodSeries(n, b))>> ELSE <<>>)
  \o <<Col(Player1 \o US \o X, xs), Col(Player1 \o US \o Y, ys)>>

\* the ten-row constant-velocity table: x grows by 1.0 per 0.04 s, y is constant
ScenarioTable ==
  SignalTable(10, [i \in 1..10 |-> Num(i - 1)], [i \in 1..10 |-> Num(3)], FALSE, 0, 0)

\* seven rows at 50 m/s along x until the last frame, y at rest but missing at
\* rows 2 and 5: only row 4 has both components and a speed over 12 m/s
SurvivorTable ==
  SignalTable(7, Path(<<0, 50, 50, 50, 50, 50, 5>>),
              WithGap(WithGap(Path(Steady(7, 0)), 2), 5), FALSE, 0, 0)

SignalTables ==
  {ScenarioTable, SurvivorTable}
  \cup {SignalTable(MaxRows, xs, ys, FALSE, 0, dup) :
          xs \in XTraces(MaxRows), ys \in YTraces(MaxRows), dup \in {0, 3}}
  \cup {SignalTable(MaxRows, xs, ys, TRUE, b, 0) :
          xs \in XTraces(MaxRows), ys \in YTraces(MaxRows), b \in 0..MaxRows}

InitSignal == \E table \in SignalTables, par \in SignalParams : Called(table, par)

\* a stale derived column: values no estimate of these tables produces
Stale(n) == [i \in 1..n |-> Num(99)]

SchemaRows == 3

StaleSuffixes == {VX, VY, SPEED, AX, ACCELERATION}

\* the stale column of Home_1 with this suffix, if the table is to have it
StaleCol(stale, suffix) ==
  IF suffix \in stale THEN <<Col(Player1 \o US \o suffix, Stale(SchemaRows))>> ELSE <<>>

\* the columns besides Home_1's
ExtraCols(extra) ==
  CASE extra = "none" -> <<>>
    [] extra = "player" -> <<Col(Player2 \o US \o X, Path(Steady(SchemaRows, 2))),
                             Col(Player2 \o US \o Y, Path(Steady(SchemaRows, 0)))>>
    [] extra = "x only" -> <<Col(Player2 \o US \o X, Path(Steady(SchemaRows, 2)))>>
    [] extra = "ball" -> <<Col(Ball \o US \o X, Path(Steady(SchemaRows, 9))),
                           Col(Ball \o US \o Y, Path(Steady(SchemaRows, 0)))>>

\* a table of Home_1, with stale derived columns of it (the _vx and _ax ones
\* ahead of the positions, the others behind), and further columns
SchemaTable(stale, extra, period) ==
  <<Col(TimeCol, TimeSeries(SchemaRows, 0))>>
  \o (IF period THEN <<Col(PeriodCol, PeriodSeries(SchemaRows, 2))>> ELSE <<>>)
  \o StaleCol(stale, VX) \o StaleCol(stale, AX)
  \o <<Col(Player1 \o US \o X, Path(Steady(SchemaRows, 5))),
       Col(Player1 \o US \o Y, Path(SpikeAt(SchemaRows, 0, 3, 3)))>>
  \o StaleCol(stale, VY) \o StaleCol(stale, SPEED) \o StaleCol(stale, ACCELERATION)
  \o ExtraCols(extra)

SchemaTables ==
  {SchemaTable(stale, extra, period) :
     stale \in SUBSET StaleSuffixes,
     extra \in {"none", "player", "x only", "ball"},
     period \in BOOLEAN}

SchemaParams ==
  {Unsmoothed(Num(DefaultMaxSpeed)),
   [smoothing |-> TRUE, filter_ |-> SavitzkyGolay, window |-> DefaultWindow,
    polyorder |-> DefaultPolyorder, maxspeed |-> Num(DefaultMaxSpeed)],
   [smoothing |-> TRUE, filter_ |-> MovingAverage, window |-> 2,
    polyorder |-> DefaultPolyorder, maxspeed |-> Num(DefaultMaxSpeed)]}

InitSchema == \E table \in SchemaTables, par \in SchemaParams : Called(table, par)

\* one call of calc_player_velocities
Estimate ==
  \/ Sanitize
  \/ Enumerate
  \/ Differentiate
  \/ Reject
  \/ Clean
  \/ Smooth
  \/ PutResults
  \/ Return

Next ==
  \/ Estimate
  \/ \E onOutput \in BOOLEAN : CallAgain(onOutput)

\* calls on tables of varied schema, each followed by a second call
Spec == InitSchema /\ [][Next]_vars

\* single calls on one player's traces under varied parameters
SpecSignal == InitSignal /\ [][Estimate]_vars

(***************************************************************************)
(* Properties                                                              *)
(***************************************************************************)
Range(f) == {f[i] : i \in DOMAIN f}

\* how many columns of t bear this name
Count(t, name) == Cardinality({i \in 1..Len(t) : t[i].name = name})

\* C1: calc_player_velocities never mutates the table object passed in: the
\* caller's table has the fields and values it had when the call was made,
\* whether or not it held derived fields, and the new fields are only in the
\* table returned.
C1_InputNotMutated == caller = given

\* C5: in the table returned, every detected player has exactly one _vx, one
\* _vy and one _speed field, each holding what this call computed (no stale
\* value survives), and no field ending in _ax, _ay or _acceleration remains.
C5_SchemaAfterEstimation ==
  pc = "done" =>
    /\ \A k \in 1..Len(player_ids) :
         LET p == player_ids[k]
         IN  /\ Count(team, p \o US \o VX) = 1
             /\ Count(team, p \o US \o VY) = 1
             /\ Count(team, p \o US \o SPEED) = 1
             /\ Column(team, p \o US \o VX) = computed[k][1]
             /\ Column(team, p \o US \o VY) = computed[k][2]
             /\ Column(team, p \o US \o SPEED) = SpeedOf(computed[k][1], computed[k][2])
             /\ Stale(NRows(team)) \notin {Column(team, p \o US \o VX),
                                          Column(team, p \o US \o VY),
                                          Column(team, p \o US \o SPEED)}
    /\ \A i \in 1..Len(team) : LastToken(team[i].name) \notin {AX, AY, ACCELERATION}

\* the schema scenario: stray Home_1_vx and Home_1_speed, no Home_1_vy
C5_Witness ==
  /\ pc = "done"
  /\ ncall = 1
  /\ given = SchemaTable({VX, SPEED}, "none", FALSE)
  /\ Len(player_ids) = 1
  /\ {team[i].name : i \in 1..Len(team)} =
       {TimeCol, Player1 \o US \o X, Player1 \o US \o Y, Player1 \o US \o VX,
        Player1 \o US \o VY, Player1 \o US \o SPEED}

\* C6: the estimator is idempotent: a second call with the same parameters,
\* on the first call's output or on the same table again, returns a table
\* equal to the first call's.
C6_EstimatorIdempotent == (pc = "done" /\ ncall = 2) => team = first

\* a second call made on the first call's own output has returned
C6_Witness ==
  /\ pc = "done"
  /\ ncall = 2
  /\ given = first
  /\ Len(player_ids) = 2
  /\ params.smoothing

\* C7: remove_player_velocities removes exactly the fields whose name, split
\* on '_', has its last token in {vx, vy, ax, ay, speed, acceleration}; the
\* other fields keep their names, order and values; with no such field the
\* table comes back unchanged; the argument itself is left as it was.
C7_RemovesExactlyDerived ==
  pc = "enumerate" =>
    LET kept == {i \in 1..Len(given) :
                   LastToken(given[i].name) \notin {VX, VY, AX, AY, SPEED, ACCELERATION}}
    IN  /\ Len(team) = Cardinality(kept)
        /\ \A i \in kept : team[Cardinality({j \in kept : j <= i})] = given[i]
        /\ (kept = 1..Len(given) => team = given)
        /\ caller = given

\* all five stale fields were removed from around the position fields
C7_Witness ==
  /\ pc = "enumerate"
  /\ Len(given) = Len(team) + 5
  /\ HasColumn(given, Player1 \o US \o ACCELERATION)
  /\ ~HasColumn(team, Player1 \o US \o ACCELERATION)
  /\ HasColumn(team, Ball \o US \o Y)

\* the team-prefixed labels that have a position field
PositionPrefixes(t) ==
  {DropLast2(t[i].name) :
     i \in {j \in 1..Len(t) :
              /\ Prefix(t[j].name, 4) \in {Home, Away}
              /\ (EndsWith(t[j].name, US \o X) \/ EndsWith(t[j].name, US \o Y))}}

\* C10: the players velocities are computed for are exactly the prefixes p
\* with both a p_x and a p_y field; a prefix with only one of them is not a
\* player and does not make the call fail.
C10_PlayersHaveBothPositions ==
  /\ pc # "failed"
  /\ pc \in {"loop", "reject", "clean", "smooth", "put", "done"} =>
       Range(player_ids) =
         {p \in PositionPrefixes(team) :
            HasColumn(team, p \o US \o X) /\ HasColumn(team, p \o US \o Y)}

\* the rows of a series that hold a finite value and were not rejected
Usable(v, other, maxspeed) ==
  {i \in 1..Len(v) : IsFinite(v[i]) /\ ~SpeedGt(v[i], other[i], maxspeed)}

\* the value a gap at row i takes from the usable rows U of v: on the line
\* through the nearest usable rows on either side, the nearest usable row when
\* only one side has one, missing when there is none
Filled(v, U, i) ==
  LET before == {j \in U : j < i}
      after == {j \in U : j > i}
  IN  IF before # {} /\ after # {}
      THEN FAdd(v[SetMax(before)],
                FMul(FSub(v[SetMin(after)], v[SetMax(before)]),
                     Rat(i - SetMax(before), SetMin(after) - SetMax(before))))
      ELSE IF before # {} THEN v[SetMax(before)]
      ELSE IF after # {} THEN v[SetMin(after)]
      ELSE NaN

\* the rows whose raw speed exceeds max_speed
Rejected(i) == SpeedGt(raw[1][i], raw[2][i], params.maxspeed)

\* C4, as amended: with max_speed > 0, at every row whose raw speed exceeds
\* max_speed both components handed to smoothing are interpolated from the
\* samples that were not rejected (not clipped, not left raw, though the
\* interpolated value may coincide with the raw one), and every row whose raw
\* speed is at most max_speed keeps its raw value.
C4_RejectedThenInterpolated ==
  (pc = "smooth" /\ OutliersEnabled(params.maxspeed)) =>
    \A i \in 1..Len(fed[1]) :
      /\ Rejected(i) =>
           /\ fed[1][i] = Filled(raw[1], Usable(raw[1], raw[2], params.maxspeed), i)
           /\ fed[2][i] = Filled(raw[2], Usable(raw[2], raw[1], params.maxspeed), i)
      /\ (IsFinite(raw[1][i]) /\ IsFinite(raw[2][i]) /\ ~Rejected(i)) =>
           /\ fed[1][i] = raw[1][i]
           /\ fed[2][i] = raw[2][i]

\* C4, as claimed: the value handed to smoothing at a rejected row is, besides,
\* never the raw finite-difference value.
C4_NeverTheRawValue ==
  (pc = "smooth" /\ OutliersEnabled(params.maxspeed)) =>
    \A i \in 1..Len(fed[1]) :
      Rejected(i) => <<fed[1][i], fed[2][i]>> # <<raw[1][i], raw[2][i]>>

\* a glitch in y at row 3 was rejected and filled from rows 2 and 4
C4_Witness ==
  /\ pc = "smooth"
  /\ OutliersEnabled(params.maxspeed)
  /\ Len(fed[1]) = MaxRows
  /\ Rejected(3)
  /\ ~Rejected(2)
  /\ ~Rejected(4)
  /\ raw[2][3] = Num(50)
  /\ fed[2][3] = Num(0)
  /\ fed[1][3] = Num(5)

\* the parameters of the round-trip scenario
ScenarioCall(maxspeed) ==
  /\ pc = "done"
  /\ given = ScenarioTable
  /\ params = Unsmoothed(Num(maxspeed))

OutColumn(suffix) == Column(team, Player1 \o US \o suffix)

\* C3, as claimed: on the ten-row constant-velocity table, smoothing off and
\* max_speed = 12, vx = 25, vy = 0 and speed = 25 at every interior row and
\* the first row is missing.
C3_ScenarioAsClaimed ==
  ScenarioCall(DefaultMaxSpeed) =>
    /\ \A i \in 2..9 : /\ OutColumn(VX)[i] = Num(25)
                       /\ OutColumn(VY)[i] = Num(0)
                       /\ OutColumn(SPEED)[i] = Num(25)
    /\ OutColumn(VX)[1] = NaN
    /\ OutColumn(VY)[1] = NaN
    /\ OutColumn(SPEED)[1] = NaN

\* C3, as amended: on that table with smoothing off, max_speed = 12 rejects
\* every row (25 m/s > 12 m/s), so vx, vy and speed are missing at every row;
\* with outlier rejection off (max_speed = 0) vx = 25, vy = 0 and speed = 25
\* at every row, the first included.
C3_ScenarioAllRejected ==
  /\ ScenarioCall(DefaultMaxSpeed) =>
       \A i \in 1..10 : /\ OutColumn(VX)[i] = NaN
                        /\ OutColumn(VY)[i] = NaN
                        /\ OutColumn(SPEED)[i] = NaN
  /\ ScenarioCall(0) =>
       \A i \in 1..10 : /\ OutColumn(VX)[i] = Num(25)
                        /\ OutColumn(VY)[i] = Num(0)
                        /\ OutColumn(SPEED)[i] = Num(25)

C3_Witness ==
  /\ ScenarioCall(DefaultMaxSpeed)
  /\ \A i \in 2..10 : raw[1][i] = Num(25) /\ raw[2][i] = Num(0)
  /\ Len(OutColumn(VX)) = 10

\* the series a, with extra added at row j
Spiked(a, j, extra) == [i \in 1..Len(a) |-> IF i = j THEN FAdd(a[i], extra) ELSE a[i]]

\* C2: with a half-time boundary row b and smoothing on, two runs whose
\* gap-filled pre-smoothing series differ only at rows before b end with the
\* same smoothed vx and vy at every row after b.
C2_SegmentIsolation ==
  (pc = "put" /\ params.smoothing /\ second_half_idx > 0) =>
    \A j \in 1..(second_half_idx - 1) :
      LET other == Smoothed(Spiked(fed[1], j, Num(10)), Spiked(fed[2], j, Num(10)),
                            params, second_half_idx)
      IN  \A i \in (second_half_idx + 1)..Len(vx) :
            other.vx[i] = vx[i] /\ other.vy[i] = vy[i]

\* the effective window the claim gives for a request of win on n rows: win
\* made odd when that fits, else the largest odd number <= n (0 if none)
ClaimedWindow(win, n) ==
  LET odd == IF win % 2 = 0 THEN win + 1 ELSE win
      odds == {k \in 1..n : k % 2 = 1}
  IN  IF odd <= n THEN odd ELSE IF odds = {} THEN 0 ELSE SetMax(odds)

\* C9: _savgol_safe never raises; it returns the series unfiltered exactly when
\* the requested window is < 3 or the window clamped to the series is < 3, and
\* otherwise filters with a window that is odd, >= 3, <= n and equal to the
\* request made odd when that fits, else to the largest odd number <= n; four
\* rows and a request of 7 give a window of 3.
C9_WindowAdjusted ==
  \A k \in 1..Len(sg) :
    LET c == sg[k]
    IN  /\ ~c.raised
        /\ ~c.filtered <=> (c.win < 3 \/ ClaimedWindow(c.win, c.n) < 3)
        /\ c.filtered =>
             /\ c.w % 2 = 1
             /\ c.w >= 3
             /\ c.w <= c.n
             /\ c.w = ClaimedWindow(c.win, c.n)
        /\ (c.n = 4 /\ c.win = 7) => (c.filtered /\ c.w = 3)

\* a segment of four rows was filtered under a requested window of 7
C9_Witness ==
  /\ pc = "put"
  /\ \E k \in 1..Len(sg) : sg[k].n = 4 /\ sg[k].win = 7 /\ sg[k].filtered /\ sg[k].w = 3

\* C8: moving-average smoothing is total and length-preserving: for a segment
\* of n >= 1 rows and any positive window, a window > n included, the
\* convolution written back has n values and the call does not raise.
C8_MovingAverageTotal ==
  (params.smoothing /\ params.filter_ = MovingAverage /\ params.window >= 1
     /\ NRows(given) >= 1)
  => pc # "failed"

====
